---------------------------- MODULE Spec2Model ----------------------------
(***************************************************************************)
(* Model of the status-aggregation engine of git-for-each                  *)
(* (src/src/utils/git.ts).                                                 *)
(*                                                                         *)
(* Text is a sequence of one-character strings, so that the regular        *)
(* expressions and the trimming of the source are computed on characters.  *)
(* The outcome of an external command is a record [ok, out]: ok = FALSE is *)
(* the command failing (cmd throws), out is its captured standard output.  *)
(* A settled promise is [state |-> "fulfilled", value |-> v] or            *)
(* [state |-> "rejected"]; an unsettled one is [state |-> "pending"].      *)
(***************************************************************************)
EXTENDS Integers, Sequences, FiniteSets, TLC

VARIABLES
    abCmd,      \* SpecAhead: outcome of the rev-list command
    abRes,      \* SpecAhead: settlement of getAheadBehindCount
    mcIn,       \* SpecCounts: what the diff summary reports
    mcCmd,      \* SpecCounts: outcome of the diff --shortstat command
    mcRes,      \* SpecCounts: settlement of getModifiedCounts
    path,       \* Spec: the path getGitStatusInfo is called with
    repo,       \* Spec: what each git command answers in the repository
    calls,      \* Spec: the calls of getGitStatusInfo made so far, in order
    dKind,      \* SpecDirs: what each directory is (tree, gitdir, plain)
    dListing,   \* SpecDirs: the immediate subdirectories of the root, in order
    gdPc,       \* SpecDirs: where getGitDirectories(root) stands
    gdListed,   \* SpecDirs: whether getDirectories(root) has been called
    gdIssued,   \* SpecDirs: the paths isGitDirectory has been called on
    gdChecks,   \* SpecDirs: the settlements of the checks filterAsync issued
    gdOrder,    \* SpecDirs: the indices of those checks in completion order
    gdResult    \* SpecDirs: the settlement of getGitDirectories(root)

pureVars == <<abCmd, abRes, mcIn, mcCmd, mcRes>>
statusVars == <<path, repo, calls>>
dirVars == <<dKind, dListing, gdPc, gdListed, gdIssued, gdChecks, gdOrder, gdResult>>
vars == <<abCmd, abRes, mcIn, mcCmd, mcRes, path, repo, calls,
          dKind, dListing, gdPc, gdListed, gdIssued, gdChecks, gdOrder, gdResult>>

----------------------------------------------------------------------------
(* Bounds of the model *)

\* longest response text of the rev-list command that is enumerated
MaxRespLen == 4
\* largest changed-file / insertion / deletion count that is enumerated
MaxCount == 11
\* number of successive calls of getGitStatusInfo
NumCalls == 2
\* largest number of immediate subdirectories of the root
NumDirs == 3

----------------------------------------------------------------------------
(* Text *)

Digits == {"0", "1", "2", "3", "4", "5", "6", "7", "8", "9"}
Whitespace == {" ", "\t", "\n", "\r"}

IsDigit(c) == c \in Digits
IsSpace(c) == c \in Whitespace

Max(S) == CHOOSE m \in S : \A k \in S : k <= m
Min(S) == CHOOSE m \in S : \A k \in S : m <= k

\* the last index of the longest run of characters of the class C that
\* starts at index from (from - 1 when the run is empty): a greedy C*
RunEnd(text, from, C) ==
    Max({k \in (from - 1)..Len(text) : \A i \in from..k : text[i] \in C})

DigitVal(c) ==
    CASE c = "0" -> 0 [] c = "1" -> 1 [] c = "2" -> 2 [] c = "3" -> 3
      [] c = "4" -> 4 [] c = "5" -> 5 [] c = "6" -> 6 [] c = "7" -> 7
      [] c = "8" -> 8 [] c = "9" -> 9

DigitChar(d) ==
    CASE d = 0 -> "0" [] d = 1 -> "1" [] d = 2 -> "2" [] d = 3 -> "3"
      [] d = 4 -> "4" [] d = 5 -> "5" [] d = 6 -> "6" [] d = 7 -> "7"
      [] d = 8 -> "8" [] d = 9 -> "9"

\* the decimal text of a natural number, as git prints a count
RECURSIVE ToDigits(_)
ToDigits(n) ==
    IF n < 10 THEN <<DigitChar(n)>>
    ELSE Append(ToDigits(n \div 10), DigitChar(n % 10))

\* the value of a text of decimal digits
RECURSIVE DigitsValue(_)
DigitsValue(s) ==
    IF s = <<>> THEN 0
    ELSE 10 * DigitsValue(SubSeq(s, 1, Len(s) - 1)) + DigitVal(s[Len(s)])

----------------------------------------------------------------------------
(* JavaScript values and the conversions the source applies to them *)

JsNull == [t |-> "null"]
JsUndefined == [t |-> "undefined"]
JsNaN == [t |-> "NaN"]
JsNum(n) == [t |-> "number", v |-> n]
JsStr(s) == [t |-> "string", s |-> s]
JsBool(b) == [t |-> "boolean", b |-> b]

\* Boolean(x): the truthiness of a value
Boolean(x) ==
    CASE x.t = "number" -> x.v # 0
      [] x.t = "string" -> x.s # <<>>
      [] x.t = "boolean" -> x.b
      [] OTHER -> FALSE

\* a || b: a when a is truthy, b otherwise
JsOr(a, b) == IF Boolean(a) THEN a ELSE b

\* Number(x): "" is 0, a text of digits its value, undefined and any other
\* text NaN, null 0
Number(x) ==
    CASE x.t = "number" -> x
      [] x.t = "string" ->
            IF \A i \in 1..Len(x.s) : IsDigit(x.s[i])
            THEN JsNum(DigitsValue(x.s)) ELSE JsNaN
      [] x.t = "null" -> JsNum(0)
      [] x.t = "boolean" -> JsNum(IF x.b THEN 1 ELSE 0)
      [] OTHER -> JsNaN

Fulfilled(v) == [state |-> "fulfilled", value |-> v]
Rejected == [state |-> "rejected"]
Pending == [state |-> "pending"]

CmdOk(text) == [ok |-> TRUE, out |-> text]
CmdFail == [ok |-> FALSE, out |-> <<>>]

----------------------------------------------------------------------------
(* Helpers imported from "." (string and process utilities) *)

\* the text without its leading characters that are in the set C
RECURSIVE DropLeading(_, _)
DropLeading(text, C) ==
    IF text # <<>> /\ text[1] \in C THEN DropLeading(Tail(text), C) ELSE text

\* the text without its trailing characters that are in the set C
RECURSIVE DropTrailing(_, _)
DropTrailing(text, C) ==
    IF text # <<>> /\ text[Len(text)] \in C
    THEN DropTrailing(SubSeq(text, 1, Len(text) - 1), C) ELSE text

\* trimWhitespace: the text without its leading and trailing whitespace
trimWhitespace(text) == DropTrailing(DropLeading(text, Whitespace), Whitespace)

\* trimNewLines: the text without its leading and trailing line breaks
trimNewLines(text) == DropTrailing(DropLeading(text, {"\n"}), {"\n"})

\* the lines of a text: split at line breaks, empty lines dropped
RECURSIVE Lines(_)
Lines(text) ==
    IF text = <<>> THEN <<>>
    ELSE LET breaks == {i \in 1..Len(text) : text[i] = "\n"}
             e == IF breaks = {} THEN Len(text) ELSE Min(breaks) - 1
         IN  (IF e = 0 THEN <<>> ELSE <<SubSeq(text, 1, e)>>)
                \o Lines(SubSeq(text, e + 2, Len(text)))

\* tryCmd: the lines of the command's output, no line when the command fails
tryCmd(o) == IF o.ok THEN Lines(o.out) ELSE <<>>

----------------------------------------------------------------------------
(* Regular expressions of the source *)

\* text.match(/(\d+) <word>/)?.[1]: the digits of the leftmost place where
\* one or more digits are followed by a space and the word; undefined when
\* there is none
MatchCountBefore(text, word) ==
    LET lit == <<" ">> \o word
        at == {i \in 1..Len(text) :
                 /\ IsDigit(text[i])
                 /\ LET j == RunEnd(text, i, Digits)
                    IN  /\ j + Len(lit) <= Len(text)
                        /\ SubSeq(text, j + 1, j + Len(lit)) = lit}
    IN  IF at = {} THEN JsUndefined
        ELSE JsStr(SubSeq(text, Min(at), RunEnd(text, Min(at), Digits)))

\* resp.match(/(\d*)\s*(\d*)/): every part may be empty, so the match is
\* always found at the start of the text; <<whole, group 1, group 2>>
MatchAheadBehind_Swapped(resp) ==
    LET e1 == RunEnd(resp, 1, Digits)
        ws == RunEnd(resp, e1 + 1, Whitespace)
        e2 == RunEnd(resp, ws + 1, Digits)
    IN  <<JsStr(SubSeq(resp, 1, e2)),
          JsStr(SubSeq(resp, ws + 1, e2)),
          JsStr(SubSeq(resp, 1, e1))>>

MatchAheadBehind(resp) ==
    LET e1 == RunEnd(resp, 1, Digits)
        ws == RunEnd(resp, e1 + 1, Whitespace)
        e2 == RunEnd(resp, ws + 1, Digits)
    IN  <<JsStr(SubSeq(resp, 1, e2)),
          JsStr(SubSeq(resp, 1, e1)),
          JsStr(SubSeq(resp, ws + 1, e2))>>

----------------------------------------------------------------------------
(* Field extractors *)

W_files == <<"f", "i", "l", "e", "s">>
W_file == <<"f", "i", "l", "e">>
W_insertions == <<"i", "n", "s", "e", "r", "t", "i", "o", "n", "s">>
W_insertion == <<"i", "n", "s", "e", "r", "t", "i", "o", "n">>
W_deletions == <<"d", "e", "l", "e", "t", "i", "o", "n", "s">>
W_deletion == <<"d", "e", "l", "e", "t", "i", "o", "n">>
W_changed == <<" ", "c", "h", "a", "n", "g", "e", "d">>

\* getModifiedCounts, given the outcome of `git diff --shortstat`
getModifiedCounts(o) ==
    LET lines == tryCmd(o)
    IN  IF lines = <<>>
        THEN Fulfilled([files |-> JsNum(0), insertions |-> JsNum(0),
                        deletions |-> JsNum(0)])
        ELSE LET stats == lines[1]
             IN  Fulfilled(
                   [files |-> Number(JsOr(MatchCountBefore(stats, W_files),
                                          JsNum(0))),
                    insertions |-> Number(JsOr(MatchCountBefore(stats, W_insertions),
                                               JsNum(0))),
                    deletions |-> Number(JsOr(MatchCountBefore(stats, W_deletions),
                                              JsNum(0)))])

\* getAheadBehindCount, given the outcome of
\* `git rev-list --count --left-right HEAD...@{upstream}`
getAheadBehindCount_Zero(o) ==
    IF o.ok
    THEN LET matches == MatchAheadBehind(o.out)
         IN  Fulfilled([ahead |-> Number(matches[2]),
                        behind |-> Number(matches[3])])
    ELSE Fulfilled([ahead |-> JsNum(0), behind |-> JsNum(0)])

getAheadBehindCount(o) ==
    IF o.ok
    THEN LET matches == MatchAheadBehind(o.out)
         IN  Fulfilled([ahead |-> Number(matches[2]),
                        behind |-> Number(matches[3])])
    ELSE Fulfilled([ahead |-> JsNull, behind |-> JsNull])

S_DetachedHead ==
    <<"D", "e", "t", "a", "c", "h", "e", "d", " ", "H", "e", "a", "d">>

\* getGitShortStatus, given the outcome of `git status -s`
getGitShortStatus_NoFlag(o) ==
    IF o.ok
    THEN Fulfilled([status |-> trimNewLines(o.out), tooManyChanges |-> JsUndefined])
    ELSE Fulfilled([status |-> <<>>, tooManyChanges |-> JsUndefined])

getGitShortStatus(o) ==
    IF o.ok
    THEN Fulfilled([status |-> trimNewLines(o.out), tooManyChanges |-> JsUndefined])
    ELSE Fulfilled([status |-> <<>>, tooManyChanges |-> JsBool(TRUE)])

\* getCurrentBranch, given the outcome of `git branch --show-current`: the
\* command is not wrapped in a try, so its failure rejects the promise
getCurrentBranch(o) ==
    IF o.ok
    THEN Fulfilled(JsOr(JsStr(trimWhitespace(o.out)), JsStr(S_DetachedHead)).s)
    ELSE Rejected

----------------------------------------------------------------------------
(* Status aggregator *)

\* the limit on the length of the status text
TooManyLimit == 1000

\* getDirectoryName: the last segment of the path
getDirectoryName(p) == p[Len(p)]

isDirtyOf(modifiedCount) == Boolean(modifiedCount.files)

hasUnmergedCommitsOf(diffCommitCount) == Boolean(diffCommitCount.ahead)

hasUnsyncedCommitsOf_BehindOnly(diffCommitCount) ==
    Boolean(diffCommitCount.behind)

hasUnsyncedCommitsOf(diffCommitCount) ==
    Boolean(JsOr(diffCommitCount.ahead, diffCommitCount.behind))

hasUnsavedChangesOf_And(isDirty, hasUnmergedCommits) ==
    isDirty /\ hasUnmergedCommits

hasUnsavedChangesOf(isDirty, hasUnmergedCommits) ==
    isDirty \/ hasUnmergedCommits

\* the record getGitStatusInfo returns from the values of its four queries
GitStatusRecord(p, branch, statusInfo, diffCommitCount, modifiedCount) ==
    LET status == statusInfo.status
        tooManyChanges == statusInfo.tooManyChanges
        isDirty == isDirtyOf(modifiedCount)
        hasUnmergedCommits == hasUnmergedCommitsOf(diffCommitCount)
        hasUnsyncedCommits == hasUnsyncedCommitsOf(diffCommitCount)
        hasUnsavedChanges == hasUnsavedChangesOf(isDirty, hasUnmergedCommits)
    IN  [name |-> getDirectoryName(p),
         path |-> p,
         status |-> status,
         branch |-> branch,
         diffCommitCount |-> diffCommitCount,
         modifiedCount |-> modifiedCount,
         isDirty |-> isDirty,
         hasUnsavedChanges |-> hasUnsavedChanges,
         tooManyChanges |-> JsOr(tooManyChanges, JsBool(Len(status) > TooManyLimit)),
         hasUnmergedCommits |-> hasUnmergedCommits,
         hasUnsyncedCommits |-> hasUnsyncedCommits]

Queries == {"branch", "status", "aheadBehind", "modified"}

\* the settlement of one of the four queries in a repository
Extract(q, r) ==
    CASE q = "branch" -> getCurrentBranch(r.branch)
      [] q = "status" -> getGitShortStatus(r.status)
      [] q = "aheadBehind" -> getAheadBehindCount(r.aheadBehind)
      [] q = "modified" -> getModifiedCounts(r.diff)

\* the repository after a query's command has run: the four commands
\* (status -s, branch --show-current, rev-list --count, diff --shortstat)
\* only read
RepoAfter_Stash(q, r) ==
    IF q = "modified"
    THEN [r EXCEPT !.diff = CmdOk(<<>>), !.status = CmdOk(<<>>)]
    ELSE r

RepoAfter(q, r) == r

\* Promise.all over the four queries: rejected as soon as one of them is,
\* fulfilled with the record once all four are
JoinReady(qs) ==
    \/ \E q \in Queries : qs[q].state = "rejected"
    \/ \A q \in Queries : qs[q].state = "fulfilled"

getGitStatusInfo(p, qs) ==
    IF \E q \in Queries : qs[q].state = "rejected"
    THEN Rejected
    ELSE Fulfilled(GitStatusRecord(p, qs["branch"].value, qs["status"].value,
                                   qs["aheadBehind"].value, qs["modified"].value))

----------------------------------------------------------------------------
(* Repository detector *)

S_true == <<"t", "r", "u", "e">>
S_false == <<"f", "a", "l", "s", "e">>

\* isGitDirectory, given the outcome of `git rev-parse --is-inside-work-tree`
isGitDirectory_Throws(o) ==
    IF o.ok THEN Fulfilled(trimWhitespace(o.out) = S_true) ELSE Rejected

isGitDirectory(o) ==
    IF o.ok THEN Fulfilled(trimWhitespace(o.out) = S_true) ELSE Fulfilled(FALSE)

\* getGitDirectories after `await isGitDirectory(path)`: return [path], or
\* go on to list the directory
AfterRootCheck_Inverted(isGit) == IF ~isGit THEN "return" ELSE "list"

AfterRootCheck(isGit) == IF isGit THEN "return" ELSE "list"

\* filterAsync: the elements whose check answered true, in the order of the
\* array; it throws when a check does
filterAsync(arr, checks) ==
    IF \E i \in 1..Len(arr) : checks[i].state = "rejected"
    THEN Rejected
    ELSE LET keep == {i \in 1..Len(arr) : checks[i].value}
             F[k \in 0..Len(arr)] ==
                IF k = 0 THEN <<>>
                ELSE IF k \in keep THEN Append(F[k - 1], arr[k]) ELSE F[k - 1]
         IN  Fulfilled(F[Len(arr)])

----------------------------------------------------------------------------
(* What the external commands can answer *)

\* the one-line summary of `git diff --shortstat` for the given counts; a
\* clause is worded in the singular when its count is 1
\*   ex. 4 files changed, 15 insertions(+), 5 deletions(-)
\*   ex. 8 files changed, 595 deletions(-)
ShortStatLine(d) ==
    <<" ">> \o ToDigits(d.files) \o <<" ">>
        \o (IF d.files = 1 THEN W_file ELSE W_files) \o W_changed
        \o (IF d.hasIns
            THEN <<",", " ">> \o ToDigits(d.ins) \o <<" ">>
                    \o (IF d.ins = 1 THEN W_insertion ELSE W_insertions)
                    \o <<"(", "+", ")">>
            ELSE <<>>)
        \o (IF d.hasDel
            THEN <<",", " ">> \o ToDigits(d.del) \o <<" ">>
                    \o (IF d.del = 1 THEN W_deletion ELSE W_deletions)
                    \o <<"(", "-", ")">>
            ELSE <<>>)
        \o <<"\n">>

\* what a diff summary reports: files = 0 is "no changes" (no line printed)
DiffReports ==
    {[files |-> 0, hasIns |-> FALSE, ins |-> 0, hasDel |-> FALSE, del |-> 0]}
    \cup {d \in [files : 1..MaxCount, hasIns : BOOLEAN, ins : 0..MaxCount,
                 hasDel : BOOLEAN, del : 0..MaxCount] :
            /\ (~d.hasIns => d.ins = 0)
            /\ (~d.hasDel => d.del = 0)}

DiffOutcome(d) == IF d.files = 0 THEN CmdOk(<<>>) ELSE CmdOk(ShortStatLine(d))

RespAlphabet == {"0", "1", "7", "\t", " ", "\n", "x"}

RECURSIVE TextsUpTo(_, _)
TextsUpTo(A, n) ==
    IF n = 0 THEN {<<>>}
    ELSE LET S == TextsUpTo(A, n - 1)
         IN  S \cup {Append(s, c) : s \in {t \in S : Len(t) = n - 1}, c \in A}

\* the outcomes of the rev-list command: it fails (no upstream configured),
\* or answers a text
AheadBehindOutcomes ==
    {CmdFail} \cup {CmdOk(t) : t \in TextsUpTo(RespAlphabet, MaxRespLen)}

\* `git -C <dir> rev-parse --is-inside-work-tree` prints true in a working
\* tree, false inside a .git directory, and fails where there is no repository
RevParseOutcome(kind) ==
    CASE kind = "tree" -> CmdOk(S_true \o <<"\n">>)
      [] kind = "gitdir" -> CmdOk(S_false \o <<"\n">>)
      [] kind = "plain" -> CmdFail

DirKinds == {"tree", "gitdir", "plain"}

RootPath == <<"work">>
DirNames == <<"a", "b", "c", "d", "e">>
SubPath(i) == <<"work", DirNames[i]>>
AllPaths == {RootPath} \cup {SubPath(i) : i \in 1..NumDirs}

\* getDirectories: the immediate subdirectories, as listed
getDirectories(listing) == listing

Rep(c, n) == [i \in 1..n |-> c]

S_main == <<"m", "a", "i", "n">>

\* `git branch --show-current`: fails, prints the branch, or prints an empty
\* line (detached head)
BranchOutcomes == {CmdFail, CmdOk(S_main \o <<"\n">>), CmdOk(<<"\n">>)}

\* `git status -s`: fails, or prints the changed-file lines; the texts are
\* empty, short, exactly at the limit and one over it
StatusOutcomes ==
    {CmdFail, CmdOk(<<>>)}
    \cup {CmdOk(Rep("M", n) \o <<"\n">>) : n \in {2, TooManyLimit, TooManyLimit + 1}}

\* `git rev-list --count --left-right HEAD...@{upstream}`: fails (no
\* upstream), or prints "<ahead>\t<behind>"
UpstreamOutcomes ==
    {CmdFail}
    \cup {CmdOk(ToDigits(a) \o <<"\t">> \o ToDigits(b) \o <<"\n">>) :
            a \in {0, 2}, b \in {0, 3}}

\* `git diff --shortstat`: fails, prints nothing, or prints the summary line
DiffOutcomes ==
    {CmdFail} \cup {DiffOutcome(d) : d \in
        {[files |-> 0, hasIns |-> FALSE, ins |-> 0, hasDel |-> FALSE, del |-> 0],
         [files |-> 4, hasIns |-> TRUE, ins |-> 15, hasDel |-> TRUE, del |-> 5],
         [files |-> 8, hasIns |-> FALSE, ins |-> 0, hasDel |-> TRUE, del |-> 595]}}

Repos ==
    [branch : BranchOutcomes, status : StatusOutcomes,
     aheadBehind : UpstreamOutcomes, diff : DiffOutcomes]

Paths == {<<"repos", "alpha">>}

----------------------------------------------------------------------------
(* Spec: successive calls of getGitStatusInfo on one repository *)

InitAheadIdle == abCmd = CmdFail /\ abRes = Pending
InitCountsIdle ==
    /\ mcIn = [files |-> 0, hasIns |-> FALSE, ins |-> 0, hasDel |-> FALSE, del |-> 0]
    /\ mcCmd = CmdFail
    /\ mcRes = Pending

InitDirsIdle ==
    /\ dKind = [p \in AllPaths |-> "plain"]
    /\ dListing = <<>>
    /\ gdPc = "idle"
    /\ gdListed = FALSE
    /\ gdIssued = {}
    /\ gdChecks = <<>>
    /\ gdOrder = <<>>
    /\ gdResult = Pending

InitStatusIdle ==
    /\ path = <<"repos", "alpha">>
    /\ repo = [branch |-> CmdFail, status |-> CmdFail,
               aheadBehind |-> CmdFail, diff |-> CmdFail]
    /\ calls = <<>>

Init ==
    /\ path \in Paths
    /\ repo \in Repos
    /\ calls = <<>>
    /\ InitAheadIdle
    /\ InitCountsIdle
    /\ InitDirsIdle

\* getGitStatusInfo(path) is called, after the previous call has returned or
\* thrown: its four queries are issued
CallGetStatus ==
    /\ Len(calls) < NumCalls
    /\ calls # <<>> => calls[Len(calls)].out.state # "pending"
    /\ calls' = Append(calls, [q |-> [x \in Queries |-> Pending], out |-> Pending])
    /\ UNCHANGED <<path, repo, pureVars, dirVars>>

\* the command of query q of call c ends and the query settles
Complete(c, q) ==
    /\ calls[c].q[q].state = "pending"
    /\ calls' = [calls EXCEPT ![c].q[q] = Extract(q, repo)]
    /\ repo' = RepoAfter(q, repo)
    /\ UNCHANGED <<path, pureVars, dirVars>>

CompleteBranch == \E c \in 1..Len(calls) : Complete(c, "branch")
CompleteShortStatus == \E c \in 1..Len(calls) : Complete(c, "status")
CompleteAheadBehind == \E c \in 1..Len(calls) : Complete(c, "aheadBehind")
CompleteModifiedCounts == \E c \in 1..Len(calls) : Complete(c, "modified")

\* the await of Promise.all resumes: the call returns its record or throws
Join ==
    \E c \in 1..Len(calls) :
        /\ calls[c].out.state = "pending"
        /\ JoinReady(calls[c].q)
        /\ calls' = [calls EXCEPT ![c].out = getGitStatusInfo(path, calls[c].q)]
        /\ UNCHANGED <<path, repo, pureVars, dirVars>>

Next ==
    \/ CallGetStatus
    \/ CompleteBranch
    \/ CompleteShortStatus
    \/ CompleteAheadBehind
    \/ CompleteModifiedCounts
    \/ Join

Spec == Init /\ [][Next]_vars

----------------------------------------------------------------------------
(* SpecAhead: getAheadBehindCount on every response *)

InitAhead ==
    /\ abCmd \in AheadBehindOutcomes
    /\ abRes = Pending
    /\ InitCountsIdle
    /\ InitStatusIdle
    /\ InitDirsIdle

RunAheadBehind ==
    /\ abRes.state = "pending"
    /\ abRes' = getAheadBehindCount(abCmd)
    /\ UNCHANGED <<abCmd, mcIn, mcCmd, mcRes, statusVars, dirVars>>

NextAhead == RunAheadBehind

SpecAhead == InitAhead /\ [][NextAhead]_vars

----------------------------------------------------------------------------
(* SpecCounts: getModifiedCounts on every diff summary *)

InitCounts ==
    /\ mcIn \in DiffReports
    /\ mcCmd \in {DiffOutcome(mcIn)} \cup (IF mcIn.files = 0 THEN {CmdFail} ELSE {})
    /\ mcRes = Pending
    /\ InitAheadIdle
    /\ InitStatusIdle
    /\ InitDirsIdle

RunModifiedCounts ==
    /\ mcRes.state = "pending"
    /\ mcRes' = getModifiedCounts(mcCmd)
    /\ UNCHANGED <<abCmd, abRes, mcIn, mcCmd, statusVars, dirVars>>

NextCounts == RunModifiedCounts

SpecCounts == InitCounts /\ [][NextCounts]_vars

----------------------------------------------------------------------------
(* SpecDirs: getGitDirectories on a root directory *)

InitDirs ==
    /\ dKind \in [AllPaths -> DirKinds]
    /\ dListing \in {[i \in 1..n |-> SubPath(i)] : n \in 0..NumDirs}
    /\ \A i \in 1..NumDirs : i > Len(dListing) => dKind[SubPath(i)] = "plain"
    /\ gdPc = "start"
    /\ gdListed = FALSE
    /\ gdIssued = {}
    /\ gdChecks = <<>>
    /\ gdOrder = <<>>
    /\ gdResult = Pending
    /\ InitAheadIdle
    /\ InitCountsIdle
    /\ InitStatusIdle

\* if (await isGitDirectory(path)) return [path]
CheckRoot ==
    /\ gdPc = "start"
    /\ gdIssued' = gdIssued \cup {RootPath}
    /\ LET isGit == isGitDirectory(RevParseOutcome(dKind[RootPath]))
       IN  IF isGit.state = "rejected"
           THEN gdPc' = "done" /\ gdResult' = Rejected
           ELSE IF AfterRootCheck(isGit.value) = "return"
           THEN gdPc' = "done" /\ gdResult' = Fulfilled(<<RootPath>>)
           ELSE gdPc' = "list" /\ gdResult' = gdResult
    /\ UNCHANGED <<dKind, dListing, gdListed, gdChecks, gdOrder, pureVars, statusVars>>

\* const dirs = await getDirectories(path)
ListDirectories ==
    /\ gdPc = "list"
    /\ gdListed' = TRUE
    /\ gdPc' = "filter"
    /\ UNCHANGED <<dKind, dListing, gdIssued, gdChecks, gdOrder, gdResult,
                   pureVars, statusVars>>

\* filterAsync(dirs, isGitDirectory) issues one check per directory, all at once
IssueChecks ==
    /\ gdPc = "filter"
    /\ LET dirs == getDirectories(dListing)
       IN  /\ gdIssued' = gdIssued \cup {dirs[i] : i \in 1..Len(dirs)}
           /\ gdChecks' = [i \in 1..Len(dirs) |-> Pending]
    /\ gdPc' = "checking"
    /\ UNCHANGED <<dKind, dListing, gdListed, gdOrder, gdResult, pureVars, statusVars>>

\* the check of one directory settles; the checks settle in any order
CompleteCheck ==
    \E i \in 1..Len(gdChecks) :
        /\ gdPc = "checking"
        /\ gdChecks[i].state = "pending"
        /\ gdChecks' = [gdChecks EXCEPT
                            ![i] = isGitDirectory(RevParseOutcome(dKind[dListing[i]]))]
        /\ gdOrder' = Append(gdOrder, i)
        /\ UNCHANGED <<dKind, dListing, gdPc, gdListed, gdIssued, gdResult,
                       pureVars, statusVars>>

\* every check has settled: filterAsync resumes and getGitDirectories returns
ReturnGitDirs ==
    /\ gdPc = "checking"
    /\ \A i \in 1..Len(gdChecks) : gdChecks[i].state # "pending"
    /\ gdResult' = filterAsync(getDirectories(dListing), gdChecks)
    /\ gdPc' = "done"
    /\ UNCHANGED <<dKind, dListing, gdListed, gdIssued, gdChecks, gdOrder,
                   pureVars, statusVars>>

NextDirs ==
    \/ CheckRoot
    \/ ListDirectories
    \/ IssueChecks
    \/ CompleteCheck
    \/ ReturnGitDirs

SpecDirs == InitDirs /\ [][NextDirs]_vars

----------------------------------------------------------------------------
(* Properties of getGitStatusInfo (Spec) *)

Returned(c) == calls[c].out.state = "fulfilled"
RecordOf(c) == calls[c].out.value
IsPositive(x) == x.t = "number" /\ x.v > 0

\* C1: getGitStatusInfo never fails because one of its four queries failed:
\* whatever commands fail, no call ends with an error reaching the caller.
C1_StatusNeverFails ==
    \A c \in 1..Len(calls) : calls[c].out.state # "rejected"

\* C2: in every returned record tooManyChanges is a boolean, true exactly when
\* the short-status command failed or the status text is longer than 1000
\* characters; a failed command gives the empty status text.
C2_TooManyChanges ==
    \A c \in 1..Len(calls) : Returned(c) =>
        /\ RecordOf(c).tooManyChanges.t = "boolean"
        /\ RecordOf(c).tooManyChanges.b =
              (~repo.status.ok \/ Len(RecordOf(c).status) > 1000)
        /\ ~repo.status.ok => RecordOf(c).status = <<>>

C2_Witness ==
    \E c \in 1..Len(calls) :
        /\ Returned(c)
        /\ repo.status.ok
        /\ Len(RecordOf(c).status) = 1001
        /\ RecordOf(c).tooManyChanges = JsBool(TRUE)

\* C3: with no upstream configured (the rev-list command fails) the returned
\* record has ahead and behind absent (null, not 0) and hasUnmergedCommits and
\* hasUnsyncedCommits both false.
C3_NoUpstream ==
    \A c \in 1..Len(calls) : (Returned(c) /\ ~repo.aheadBehind.ok) =>
        /\ RecordOf(c).diffCommitCount.ahead = JsNull
        /\ RecordOf(c).diffCommitCount.behind = JsNull
        /\ ~RecordOf(c).hasUnmergedCommits
        /\ ~RecordOf(c).hasUnsyncedCommits

C3_Witness ==
    \E c \in 1..Len(calls) :
        /\ Returned(c)
        /\ ~repo.aheadBehind.ok
        /\ RecordOf(c).diffCommitCount.ahead.t = "null"

\* C5: every returned record has hasUnsavedChanges = (isDirty or
\* hasUnmergedCommits), and isDirty = (modifiedCount.files > 0).
C5_UnsavedChanges ==
    \A c \in 1..Len(calls) : Returned(c) =>
        /\ RecordOf(c).hasUnsavedChanges =
              (RecordOf(c).isDirty \/ RecordOf(c).hasUnmergedCommits)
        /\ RecordOf(c).isDirty = IsPositive(RecordOf(c).modifiedCount.files)

C5_Witness ==
    \E c \in 1..Len(calls) :
        /\ Returned(c)
        /\ ~RecordOf(c).isDirty
        /\ RecordOf(c).hasUnmergedCommits
        /\ RecordOf(c).hasUnsavedChanges

\* C6: every returned record has hasUnmergedCommits = (ahead is present and
\* > 0) and hasUnsyncedCommits = (hasUnmergedCommits or behind is present and
\* > 0); so hasUnmergedCommits implies hasUnsyncedCommits.
C6_SyncFlags ==
    \A c \in 1..Len(calls) : Returned(c) =>
        LET r == RecordOf(c)
        IN  /\ r.hasUnmergedCommits = IsPositive(r.diffCommitCount.ahead)
            /\ r.hasUnsyncedCommits =
                  (r.hasUnmergedCommits \/ IsPositive(r.diffCommitCount.behind))
            /\ r.hasUnmergedCommits => r.hasUnsyncedCommits

C6_Witness ==
    \E c \in 1..Len(calls) :
        /\ Returned(c)
        /\ RecordOf(c).diffCommitCount.ahead = JsNum(2)
        /\ RecordOf(c).diffCommitCount.behind = JsNum(0)
        /\ RecordOf(c).hasUnmergedCommits
        /\ RecordOf(c).hasUnsyncedCommits

----------------------------------------------------------------------------
(* Properties of getModifiedCounts (SpecCounts) *)

\* C4: for every one-line diff summary, files is the changed-file count on the
\* line, insertions the insertion count or 0 when that clause is absent,
\* deletions the deletion count or 0 when that clause is absent, the clauses
\* worded in the singular or the plural; with no line all three are 0.
C4_CountsMatchSummary ==
    mcRes.state = "fulfilled" =>
        mcRes.value = [files |-> JsNum(mcIn.files),
                       insertions |-> JsNum(IF mcIn.hasIns THEN mcIn.ins ELSE 0),
                       deletions |-> JsNum(IF mcIn.hasDel THEN mcIn.del ELSE 0)]

----------------------------------------------------------------------------
(* Properties of getAheadBehindCount (SpecAhead) *)

RECURSIVE TakeWhile(_, _)
TakeWhile(text, C) ==
    IF text # <<>> /\ text[1] \in C
    THEN <<text[1]>> \o TakeWhile(Tail(text), C) ELSE <<>>

\* the first numeric token when the response starts with one
LeadingNumber(text) == TakeWhile(text, Digits)
\* the numeric token that follows the leading digits and whitespace
FollowingNumber(text) ==
    TakeWhile(DropLeading(DropLeading(text, Digits), Whitespace), Digits)

AbsentIffFailed ==
    /\ (abRes.value.ahead = JsNull) = ~abCmd.ok
    /\ (abRes.value.behind = JsNull) = ~abCmd.ok
    /\ abCmd.ok => /\ abRes.value.ahead.t = "number"
                   /\ abRes.value.ahead.v \in Nat
                   /\ abRes.value.behind.t = "number"
                   /\ abRes.value.behind.v \in Nat

WellFormedParsed ==
    \A a, b \in {0, 1, 7} :
        abCmd = CmdOk(<<DigitChar(a), "\t", DigitChar(b), "\n">>)
            => abRes.value = [ahead |-> JsNum(a), behind |-> JsNum(b)]

\* C10 as stated: ahead and behind are absent exactly when the command failed;
\* on success both are non-negative integers, the first and second numeric
\* tokens of a well-formed response, and a response with no leading digits
\* yields ahead = 0 and behind = 0.
C10_Original ==
    abRes.state = "fulfilled" =>
        /\ AbsentIffFailed
        /\ WellFormedParsed
        /\ (abCmd.ok /\ LeadingNumber(abCmd.out) = <<>>)
              => abRes.value = [ahead |-> JsNum(0), behind |-> JsNum(0)]

\* C10 amended: ahead and behind are absent exactly when the command failed;
\* on success both are non-negative integers: ahead is the run of digits the
\* response starts with (0 when it starts with none) and behind is the run of
\* digits that follows those digits and any whitespace after them (0 when
\* there is none), so a response with no leading digits yields ahead = 0, and
\* behind = 0 unless it starts with whitespace followed by digits.
C10_AheadBehind ==
    abRes.state = "fulfilled" =>
        /\ AbsentIffFailed
        /\ WellFormedParsed
        /\ abCmd.ok =>
              /\ abRes.value.ahead = JsNum(DigitsValue(LeadingNumber(abCmd.out)))
              /\ abRes.value.behind = JsNum(DigitsValue(FollowingNumber(abCmd.out)))
        /\ (abCmd.ok /\ LeadingNumber(abCmd.out) = <<>>) =>
              /\ abRes.value.ahead = JsNum(0)
              /\ abCmd.out = <<>> \/ ~IsSpace(abCmd.out[1])
                    => abRes.value.behind = JsNum(0)

C10_Witness ==
    /\ abCmd = CmdOk(<<" ", "7", "\n">>)
    /\ abRes = Fulfilled([ahead |-> JsNum(0), behind |-> JsNum(7)])

----------------------------------------------------------------------------
(* Properties of getGitDirectories (SpecDirs) *)

IsTree(p) == dKind[p] = "tree"

\* C7: on a root that is itself a working tree getGitDirectories returns
\* exactly [root]; it never lists the root's subdirectories and never checks
\* one of them.
C7_RootIsTree ==
    IsTree(RootPath) =>
        /\ ~gdListed
        /\ gdIssued \subseteq {RootPath}
        /\ gdPc = "done" => gdResult = Fulfilled(<<RootPath>>)

C7_Witness ==
    /\ gdPc = "done"
    /\ IsTree(RootPath)
    /\ Len(dListing) >= 2
    /\ IsTree(dListing[1])
    /\ gdResult = Fulfilled(<<RootPath>>)

\* C8: on a root that is not a working tree getGitDirectories returns exactly
\* the listed subdirectories that are working trees, in the order listed,
\* whatever order the checks complete in; a failing check counts as false and
\* discovery never fails.
C8_FilterInOrder ==
    /\ gdResult.state # "rejected"
    /\ (gdPc = "done" /\ ~IsTree(RootPath))
          => gdResult = Fulfilled(SelectSeq(dListing, IsTree))

C8_Witness ==
    /\ gdPc = "done"
    /\ dKind[RootPath] = "plain"
    /\ Len(dListing) = 3
    /\ dKind[dListing[1]] = "tree"
    /\ dKind[dListing[2]] = "plain"
    /\ dKind[dListing[3]] = "tree"
    /\ gdOrder = <<3, 2, 1>>
    /\ gdResult = Fulfilled(<<dListing[1], dListing[3]>>)

=============================================================================
